---- MODULE Spec2Model ----
(***************************************************************************)
(* Model of the deploy service: src/server.js (the direct-deploy variant,  *)
(* with the WebSocket log channel) and the server embedded in              *)
(* src/build-and-deploy.sh (the build variant, with a BuildKit Job).       *)
(*                                                                         *)
(* JavaScript strings are sequences of one-character strings, so that      *)
(* template literals are concatenations and String.split works on          *)
(* characters. The JavaScript value undefined is Undefined for a string    *)
(* field and UndefinedNum for a numeric field.                             *)
(***************************************************************************)
EXTENDS Integers, Sequences, FiniteSets, TLC

(***************************************************************************)
(* Bounds of the model.                                                    *)
(***************************************************************************)
MaxTicks == 1
FirstClock == 9
MaxFaults == 1

MaxCtrl == 1
MaxCount == 1

\* The deploy requests, status queries and WebSocket connections of a run.
Reqs == {1, 2}
Queries == {1, 2}
Conns == {1, 2}

(***************************************************************************)
(* Strings and values.                                                     *)
(***************************************************************************)
Undefined == <<"undefined">>
UndefinedNum == 0 - 1

\* JavaScript truthiness of a string-valued field: undefined and "" are falsy.
Falsy(s) == s = Undefined \/ s = <<>>

DigitChars == <<"0","1","2","3","4","5","6","7","8","9">>
IsDigit(c) == \E i \in 1..10 : DigitChars[i] = c

\* String(n) for a non-negative integer, as the template literal renders it.
RECURSIVE NumberToString(_)
NumberToString(n) ==
  IF n < 10 THEN <<DigitChars[n + 1]>>
  ELSE NumberToString(n \div 10) \o <<DigitChars[(n % 10) + 1]>>

\* s.split(sep)[0]: the characters before the first separator, or all of s.
RECURSIVE SplitFirst(_, _)
SplitFirst(s, sep) ==
  IF s = <<>> THEN <<>>
  ELSE IF Head(s) = sep THEN <<>>
  ELSE <<Head(s)>> \o SplitFirst(Tail(s), sep)

IngressSuffix == <<"-","i","n","g","r","e","s","s">>
BaseDomain == <<".","0","r","c","a",".","l","i","v","e">>
HttpPrefix == <<"h","t","t","p",":","/","/">>
DefaultRegistry == <<"r","e","g","i","s","t","r","y",".","d","i","g","i","t","a","l","o","c","e","a","n",".","c","o","m","/","o","r","c","a","n","e","t">>
LatestTag == <<":","l","a","t","e","s","t">>
DefaultRegistryAuth == <<"r","e","g","c","r","e","d">>
ErrorJobId == <<"e","r","r","o","r">>
DefaultPort == 3000
ServicePort == 80
Replicas == 1

VARIABLES
  variant,     \* which server runs: "direct" (server.js) or "build"
  clock,       \* Date.now()
  store,       \* the cluster: <<kind, name>> -> [spec, status], present keys only
  faultsLeft,  \* failures the cluster may still answer with
  pc,          \* per deploy request: "idle", "await" (a store call in flight), "done"
  body,        \* per deploy request: req.body
  args,        \* per deploy request: the argument of createOrUpdateDeployment
  jobId,       \* per deploy request: jobId
  calls,       \* per deploy request: the store calls issued, in order, with results
  resp,        \* per deploy request: the HTTP response sent
  foreign,     \* history: another writer changed the store while the request ran
  startStore,  \* history: the store when the request was received
  doneAtStart, \* history: the requests already answered when it was received
  endStore,    \* history: the store when the request was answered
  clients,        \* wss.clients
  readyState,     \* per connection: "NONE", "OPEN", "CLOSING", "CLOSED"
  subscribedJobs, \* per connection: ws.subscribedJobs
  received,       \* per connection: the events sent to it, in order
  published,      \* history: the calls of broadcastLog, in order
  qpc,         \* per status query: "idle", "read" (the read in flight), "done"
  qJob,        \* per status query: req.params.jobId
  qKey,        \* per status query: the resource its read addresses
  qResp,       \* per status query: the HTTP response sent
  qRepeat,     \* history: the query was answered while its job id was in observed
  observed,    \* history: <<job id, resource>> answered completed, resource unchanged since
  ctrlLeft,    \* changes the cluster may still make to the resources
  logs         \* per log query: its position, req.params.jobId, the pod, the response

deployVars ==
  <<pc, body, args, jobId, calls, resp, foreign, startStore, doneAtStart, endStore>>
wsVars == <<clients, readyState, subscribedJobs, received, published>>
statusVars == <<qpc, qJob, qKey, qResp, qRepeat, ctrlLeft, logs>>
vars == <<variant, clock, store, faultsLeft, deployVars, wsVars, statusVars, observed>>

(***************************************************************************)
(* Resource builders.                                                      *)
(***************************************************************************)
\* imageName of createOrUpdateDeployment.
ImageName(v, a) ==
  IF v = "direct" THEN a.image_name
  ELSE a.registry \o <<"/">> \o a.image_name \o LatestTag

DeploymentDoc(v, a) ==
  [kind |-> "Deployment", name |-> a.app_name, replicas |-> Replicas,
   matchLabels |-> a.app_name, labels |-> a.app_name,
   containerName |-> a.app_name, image |-> ImageName(v, a),
   containerPort |-> a.port, imagePullSecrets |-> a.registry_auth]

\* A Service that forwards to its own port instead of the container's.
ServiceDoc_SamePort(a) ==
  [kind |-> "Service", name |-> a.app_name, selector |-> a.app_name,
   port |-> ServicePort, targetPort |-> ServicePort, type |-> "ClusterIP"]

ServiceDoc(a) ==
  [kind |-> "Service", name |-> a.app_name, selector |-> a.app_name,
   port |-> ServicePort, targetPort |-> a.port, type |-> "ClusterIP"]

IngressDoc(a) ==
  [kind |-> "Ingress", name |-> a.app_name \o IngressSuffix,
   rewriteTarget |-> <<"/">>, ingressClassName |-> "nginx", host |-> a.domain,
   path |-> <<"/">>, pathType |-> "Prefix",
   serviceName |-> a.app_name, servicePort |-> ServicePort]

\* The Job of createBuildKitJob.
JobDoc(jid, a) ==
  [kind |-> "Job", name |-> jid, restartPolicy |-> "Never",
   cloneUrl |-> a.repo_url,
   output |-> a.registry \o <<"/">> \o a.image_name \o LatestTag,
   secretName |-> a.registry_auth]

\* Documents that carry the job id of the request that wrote them.
Desired_Tagged(v, kind, a, jid) ==
  CASE kind = "Deployment" -> [DeploymentDoc(v, a) EXCEPT !.labels = jid]
    [] kind = "Service" -> [ServiceDoc(a) EXCEPT !.selector = jid]
    [] kind = "Ingress" -> IngressDoc(a)
    [] kind = "Job" -> JobDoc(jid, a)

\* The document each store call carries.
Desired(v, kind, a, jid) ==
  CASE kind = "Deployment" -> DeploymentDoc(v, a)
    [] kind = "Service" -> ServiceDoc(a)
    [] kind = "Ingress" -> IngressDoc(a)
    [] kind = "Job" -> JobDoc(jid, a)

\* The name each store call addresses.
ResourceName(kind, a, jid) ==
  CASE kind = "Deployment" -> a.app_name
    [] kind = "Service" -> a.app_name
    [] kind = "Ingress" -> a.app_name \o IngressSuffix
    [] kind = "Job" -> jid

\* The status of a resource the cluster has not yet acted on.
NewStatus ==
  [replicas |-> UndefinedNum, readyReplicas |-> UndefinedNum,
   succeeded |-> UndefinedNum, failed |-> UndefinedNum]

(***************************************************************************)
(* The resource store's answers.                                           *)
(***************************************************************************)
NotFoundError == [statusCode |-> 404, message |-> <<"NotFound">>]
AlreadyExistsError == [statusCode |-> 409, message |-> <<"AlreadyExists">>]
ForbiddenError == [statusCode |-> 403, message |-> <<"Forbidden">>]
\* A transport failure: the error carries no response.
NetworkError == [statusCode |-> UndefinedNum, message |-> <<"ECONNRESET">>]
NoError == [statusCode |-> 0, message |-> <<>>]

\* The errors the content of the store forces on a call.
ContentErrors(op, key) ==
  CASE op = "replace" -> IF key \in DOMAIN store THEN {} ELSE {NotFoundError}
    [] op = "create" -> IF key \in DOMAIN store THEN {AlreadyExistsError} ELSE {}

\* The failures the cluster may answer any call with while faultsLeft > 0.
InjectedErrors(op) ==
  IF faultsLeft = 0 THEN {}
  ELSE IF op = "create" THEN {ForbiddenError, NetworkError, NotFoundError}
  ELSE {ForbiddenError, NetworkError}

StoreErrors(op, key) == ContentErrors(op, key) \cup InjectedErrors(op)

FaultsAfter(op, key, e) ==
  IF e \in ContentErrors(op, key) THEN faultsLeft ELSE faultsLeft - 1

(***************************************************************************)
(* The log channel (server.js).                                            *)
(***************************************************************************)
LogData(jid, level, message) ==
  [job_id |-> jid, level |-> level, message |-> message, timestamp |-> clock]

\* A broadcast that does not look at the subscriptions.
broadcastLog_ToAll(rcv, jid, level, message) ==
  [c \in DOMAIN rcv |->
     IF c \in clients /\ readyState[c] = "OPEN"
     THEN Append(rcv[c], LogData(jid, level, message))
     ELSE rcv[c]]

\* A broadcast that does not look at the state of the socket.
broadcastLog_NoOpenCheck(rcv, jid, level, message) ==
  [c \in DOMAIN rcv |->
     IF c \in clients /\ jid \in subscribedJobs[c]
     THEN Append(rcv[c], LogData(jid, level, message))
     ELSE rcv[c]]

\* broadcastLog, applied to the per-connection record of what was sent.
broadcastLog(rcv, jid, level, message) ==
  [c \in DOMAIN rcv |->
     IF c \in clients /\ readyState[c] = "OPEN" /\ jid \in subscribedJobs[c]
     THEN Append(rcv[c], LogData(jid, level, message))
     ELSE rcv[c]]

\* The record of one call of broadcastLog: the event, the connections that
\* were open and the connections whose subscription set held the job id when
\* it was made.
Publish(pub, jid, level, message) ==
  Append(pub, [event |-> LogData(jid, level, message),
               open |-> {c \in Conns : readyState[c] = "OPEN"},
               subscribers |-> {c \in Conns : jid \in subscribedJobs[c]}])

(***************************************************************************)
(* POST /deploy.                                                           *)
(***************************************************************************)
NoResponse ==
  [code |-> 0, error |-> Undefined, job_id |-> Undefined, status |-> "",
   domain |-> Undefined, url |-> Undefined]

\* A guard that forgets app_name.
MissingRequired_ImageOnly(v, b) ==
  IF v = "direct" THEN Falsy(b.image_name)
  ELSE Falsy(b.repo_url) \/ Falsy(b.image_name)

\* The guard of the 400 response.
MissingRequired(v, b) ==
  IF v = "direct" THEN Falsy(b.image_name) \/ Falsy(b.app_name)
  ELSE Falsy(b.repo_url) \/ Falsy(b.image_name) \/ Falsy(b.app_name)

MissingMessage(v) ==
  IF v = "direct" THEN <<"Missing required fields: image_name, app_name">>
  ELSE <<"Missing required fields">>

\* The destructuring of req.body with its defaults, and appDomain.
DeployArgs(v, b) ==
  [app_name |-> b.app_name,
   image_name |-> b.image_name,
   port |-> IF b.port = UndefinedNum THEN DefaultPort ELSE b.port,
   registry_auth |->
     IF b.registry_auth = Undefined THEN DefaultRegistryAuth ELSE b.registry_auth,
   domain |->
     IF v = "direct"
     THEN IF Falsy(b.domain) THEN b.app_name \o BaseDomain ELSE b.domain
     ELSE Undefined,
   repo_url |-> IF v = "direct" THEN Undefined ELSE b.repo_url,
   registry |->
     IF v = "direct" THEN Undefined
     ELSE IF b.registry = Undefined THEN DefaultRegistry ELSE b.registry]

NoArgs ==
  [app_name |-> Undefined, image_name |-> Undefined, port |-> UndefinedNum,
   registry_auth |-> Undefined, domain |-> Undefined, repo_url |-> Undefined,
   registry |-> Undefined]

\* jobId = `${app_name}-${Date.now()}`
JobIdOf(app_name, now) == app_name \o <<"-">> \o NumberToString(now)

Call(kind, op) == [kind |-> kind, op |-> op, result |-> "pending", error |-> NoError]

\* The first store call of a request.
FirstCall(v) == IF v = "direct" THEN Call("Deployment", "replace") ELSE Call("Job", "create")

\* An order that routes before the Service exists.
NextKind_IngressFirst(v, kind) ==
  IF v = "direct"
  THEN CASE kind = "Deployment" -> "Ingress"
         [] kind = "Ingress" -> "Service"
         [] OTHER -> "none"
  ELSE CASE kind = "Job" -> "Service"
         [] kind = "Service" -> "Deployment"
         [] OTHER -> "none"

\* The resource kind converged after kind, "none" after the last.
NextKind(v, kind) ==
  IF v = "direct"
  THEN CASE kind = "Deployment" -> "Service"
         [] kind = "Service" -> "Ingress"
         [] OTHER -> "none"
  ELSE CASE kind = "Job" -> "Deployment"
         [] kind = "Deployment" -> "Service"
         [] OTHER -> "none"

LastCall(r) == calls[r][Len(calls[r])]
SetLast(cs, res, e) == [cs EXCEPT ![Len(cs)].result = res, ![Len(cs)].error = e]
KeyOf(r, kind) == <<kind, ResourceName(kind, args[r], jobId[r])>>
InFlight(r) == pc[r] = "await" /\ LastCall(r).result = "pending"

\* The observations that the step's write leaves standing.
StillObserved ==
  {o \in observed :
     o[2] \in DOMAIN store /\ o[2] \in DOMAIN store' /\ store'[o[2]] = store[o[2]]}

\* Every other request that has a convergence under way sees a foreign write.
Disturbed(r) == [x \in Reqs |-> foreign[x] \/ (x # r /\ pc[x] = "await")]

\* A test that takes every failure of a replace for not-found.
IsNotFound_AnyError(e) == e.statusCode # 0

\* error.response?.statusCode === 404
IsNotFound(e) == e.statusCode = 404

SuccessResponse(v, r) ==
  IF v = "direct"
  THEN [code |-> 200, error |-> Undefined, job_id |-> jobId[r], status |-> "completed",
        domain |-> args[r].domain, url |-> HttpPrefix \o args[r].domain]
  ELSE [code |-> 200, error |-> Undefined, job_id |-> jobId[r], status |-> "started",
        domain |-> Undefined, url |-> Undefined]

ErrorResponse(code, message) ==
  [code |-> code, error |-> message, job_id |-> Undefined, status |-> "",
   domain |-> Undefined, url |-> Undefined]

\* The handler up to its first await: validation, jobId, the start events and
\* the first store call.
Deploy(r, b) ==
  /\ pc[r] = "idle"
  /\ body' = [body EXCEPT ![r] = b]
  /\ startStore' = [startStore EXCEPT ![r] = store]
  /\ doneAtStart' = [doneAtStart EXCEPT ![r] = {x \in Reqs : pc[x] = "done"}]
  /\ IF MissingRequired(variant, b)
     THEN /\ resp' = [resp EXCEPT ![r] = ErrorResponse(400, MissingMessage(variant))]
          /\ pc' = [pc EXCEPT ![r] = "done"]
          /\ endStore' = [endStore EXCEPT ![r] = store]
          /\ UNCHANGED <<args, jobId, calls, received, published>>
     ELSE LET a == DeployArgs(variant, b)
              jid == JobIdOf(b.app_name, clock)
          IN /\ args' = [args EXCEPT ![r] = a]
             /\ jobId' = [jobId EXCEPT ![r] = jid]
             /\ received' =
                  IF variant = "direct"
                  THEN broadcastLog(
                         broadcastLog(
                           broadcastLog(received, jid, "info",
                                        <<"Starting deployment for ">> \o a.app_name),
                           jid, "info", <<"Image: ">> \o a.image_name),
                         jid, "info", <<"Domain: ">> \o a.domain)
                  ELSE received
             /\ published' =
                  IF variant = "direct"
                  THEN Publish(
                         Publish(
                           Publish(published, jid, "info",
                                   <<"Starting deployment for ">> \o a.app_name),
                           jid, "info", <<"Image: ">> \o a.image_name),
                         jid, "info", <<"Domain: ">> \o a.domain)
                  ELSE published
             /\ calls' = [calls EXCEPT ![r] = <<FirstCall(variant)>>]
             /\ pc' = [pc EXCEPT ![r] = "await"]
             /\ UNCHANGED <<resp, endStore>>
  /\ UNCHANGED <<variant, clock, store, faultsLeft, foreign,
                 clients, readyState, subscribedJobs, statusVars, observed>>

\* What follows a store call that succeeded: the next resource's replace, or
\* the success event and the 200 response.
Proceed(r) ==
  LET k == LastCall(r).kind
      n == NextKind(variant, k)
      cs == SetLast(calls[r], "ok", NoError)
  IN IF n = "none"
     THEN /\ calls' = [calls EXCEPT ![r] = cs]
          /\ pc' = [pc EXCEPT ![r] = "done"]
          /\ resp' = [resp EXCEPT ![r] = SuccessResponse(variant, r)]
          /\ endStore' = [endStore EXCEPT ![r] = store']
          /\ received' =
               IF variant = "direct"
               THEN broadcastLog(received, jobId[r], "success",
                      <<"Deployment created! App will be available at: ">>
                        \o HttpPrefix \o args[r].domain)
               ELSE received
          /\ published' =
               IF variant = "direct"
               THEN Publish(published, jobId[r], "success",
                      <<"Deployment created! App will be available at: ">>
                        \o HttpPrefix \o args[r].domain)
               ELSE published
     ELSE /\ calls' = [calls EXCEPT ![r] = Append(cs, Call(n, "replace"))]
          /\ UNCHANGED <<pc, resp, received, published, endStore>>

\* A catch block that answers as if the convergence had succeeded.
Fail_Swallowed(r, e) ==
  /\ store' = store
  /\ calls' = [calls EXCEPT ![r] = SetLast(calls[r], "error", e)]
  /\ pc' = [pc EXCEPT ![r] = "done"]
  /\ resp' = [resp EXCEPT ![r] = SuccessResponse(variant, r)]
  /\ endStore' = [endStore EXCEPT ![r] = store']
  /\ received' = received
  /\ published' = published

\* A catch block that deletes what the request had converged.
Fail_Rollback(r, e) ==
  /\ store' =
       [key \in DOMAIN store \
                  {<<calls[r][i].kind,
                     ResourceName(calls[r][i].kind, args[r], jobId[r])>> :
                     i \in {j \in DOMAIN calls[r] : calls[r][j].result = "ok"}} |->
          store[key]]
  /\ calls' = [calls EXCEPT ![r] = SetLast(calls[r], "error", e)]
  /\ pc' = [pc EXCEPT ![r] = "done"]
  /\ resp' = [resp EXCEPT ![r] = ErrorResponse(500, e.message)]
  /\ endStore' = [endStore EXCEPT ![r] = store']
  /\ received' = received
  /\ published' = published

\* The error leaves createOrUpdateDeployment and reaches the catch block of
\* the handler: no store call, the failure event and the 500 response.
Fail(r, e) ==
  /\ store' = store
  /\ calls' = [calls EXCEPT ![r] = SetLast(calls[r], "error", e)]
  /\ pc' = [pc EXCEPT ![r] = "done"]
  /\ resp' = [resp EXCEPT ![r] = ErrorResponse(500, e.message)]
  /\ endStore' = [endStore EXCEPT ![r] = store']
  /\ received' =
       IF variant = "direct"
       THEN broadcastLog(received, ErrorJobId, "error", <<"Deploy failed: ">> \o e.message)
       ELSE received
  /\ published' =
       IF variant = "direct"
       THEN Publish(published, ErrorJobId, "error", <<"Deploy failed: ">> \o e.message)
       ELSE published

\* replaceNamespaced<Kind> succeeds: the store holds the desired document.
ReplaceOk(r) ==
  /\ InFlight(r)
  /\ LastCall(r).op = "replace"
  /\ LET key == KeyOf(r, LastCall(r).kind)
     IN /\ key \in DOMAIN store
        /\ store' = [store EXCEPT
                       ![key].spec = Desired(variant, key[1], args[r], jobId[r])]
  /\ Proceed(r)
  /\ foreign' = Disturbed(r)
  /\ observed' = StillObserved
  /\ UNCHANGED <<variant, clock, faultsLeft, body, args, jobId, startStore,
                 doneAtStart, clients, readyState, subscribedJobs, statusVars>>

\* replaceNamespaced<Kind> throws: on 404 the create call, otherwise rethrow.
ReplaceThrows(r, e) ==
  /\ InFlight(r)
  /\ LastCall(r).op = "replace"
  /\ e \in StoreErrors("replace", KeyOf(r, LastCall(r).kind))
  /\ faultsLeft' = FaultsAfter("replace", KeyOf(r, LastCall(r).kind), e)
  /\ IF IsNotFound(e)
     THEN /\ calls' = [calls EXCEPT ![r] =
                         Append(SetLast(calls[r], "notfound", e),
                                Call(LastCall(r).kind, "create"))]
          /\ UNCHANGED <<store, pc, resp, received, published, endStore>>
     ELSE Fail(r, e)
  /\ UNCHANGED <<variant, clock, body, args, jobId, foreign, startStore,
                 doneAtStart, clients, readyState, subscribedJobs, statusVars, observed>>

\* createNamespaced<Kind> succeeds: the store holds a new resource.
CreateOk(r) ==
  /\ InFlight(r)
  /\ LastCall(r).op = "create"
  /\ LET key == KeyOf(r, LastCall(r).kind)
     IN /\ key \notin DOMAIN store
        /\ store' = (key :> [spec |-> Desired(variant, key[1], args[r], jobId[r]),
                             status |-> NewStatus]) @@ store
  /\ Proceed(r)
  /\ foreign' = Disturbed(r)
  /\ observed' = StillObserved
  /\ UNCHANGED <<variant, clock, faultsLeft, body, args, jobId, startStore,
                 doneAtStart, clients, readyState, subscribedJobs, statusVars>>

\* A create that answers a conflict by replacing the resource it collided with.
CreateThrows_Retry(r, e) ==
  /\ InFlight(r)
  /\ LastCall(r).op = "create"
  /\ e \in StoreErrors("create", KeyOf(r, LastCall(r).kind))
  /\ faultsLeft' = FaultsAfter("create", KeyOf(r, LastCall(r).kind), e)
  /\ IF e.statusCode = 409
     THEN /\ calls' = [calls EXCEPT ![r] =
                         Append(SetLast(calls[r], "error", e),
                                Call(LastCall(r).kind, "replace"))]
          /\ UNCHANGED <<store, pc, resp, received, published, endStore>>
     ELSE Fail(r, e)
  /\ UNCHANGED <<variant, clock, body, args, jobId, foreign, startStore,
                 doneAtStart, clients, readyState, subscribedJobs, statusVars, observed>>

\* createNamespaced<Kind> throws: nothing catches it before the handler.
CreateThrows(r, e) ==
  /\ InFlight(r)
  /\ LastCall(r).op = "create"
  /\ e \in StoreErrors("create", KeyOf(r, LastCall(r).kind))
  /\ faultsLeft' = FaultsAfter("create", KeyOf(r, LastCall(r).kind), e)
  /\ Fail(r, e)
  /\ UNCHANGED <<variant, clock, body, args, jobId, foreign, startStore,
                 doneAtStart, clients, readyState, subscribedJobs, statusVars, observed>>

\* Time passes.
Tick ==
  /\ clock < FirstClock + MaxTicks
  /\ clock' = clock + 1
  /\ UNCHANGED <<variant, store, faultsLeft, deployVars, wsVars, statusVars, observed>>

(***************************************************************************)
(* GET /status/:jobId.                                                     *)
(***************************************************************************)
NoStatusResponse ==
  [code |-> 0, error |-> Undefined, job_id |-> Undefined, status |-> "",
   phase |-> "", message |-> "", timestamp |-> UndefinedNum]

\* appName = jobId.split('-')[0]
StatusAppName(jid) == SplitFirst(jid, "-")

\* The resource the handler reads: the Deployment named appName in server.js,
\* the Job named jobId in the build variant.
StatusKey(v, jid) ==
  IF v = "direct" THEN <<"Deployment", StatusAppName(jid)>> ELSE <<"Job", jid>>

\* x > 0 and x === 0 on a counter that may be undefined.
GreaterThanZero(x) == x # UndefinedNum /\ x > 0
StrictlyZero(x) == x # UndefinedNum /\ x = 0

\* A classification that tests the failure condition first.
Classify_FailedFirst(v, st) ==
  IF v = "direct"
  THEN IF StrictlyZero(st.replicas)
       THEN [status |-> "failed", phase |-> "failed", message |-> "Deployment failed"]
       ELSE IF GreaterThanZero(st.readyReplicas)
       THEN [status |-> "completed", phase |-> "deployed",
             message |-> "Deployment successful"]
       ELSE [status |-> "running", phase |-> "deploying",
             message |-> "Deployment in progress"]
  ELSE IF GreaterThanZero(st.failed)
       THEN [status |-> "failed", phase |-> "failed", message |-> "Build failed"]
       ELSE IF GreaterThanZero(st.succeeded)
       THEN [status |-> "completed", phase |-> "deployed",
             message |-> "Build and deployment successful"]
       ELSE [status |-> "running", phase |-> "building", message |-> "Build in progress"]

\* status, phase and message from the status of the resource read.
Classify(v, st) ==
  IF v = "direct"
  THEN IF GreaterThanZero(st.readyReplicas)
       THEN [status |-> "completed", phase |-> "deployed",
             message |-> "Deployment successful"]
       ELSE IF StrictlyZero(st.replicas)
       THEN [status |-> "failed", phase |-> "failed", message |-> "Deployment failed"]
       ELSE [status |-> "running", phase |-> "deploying",
             message |-> "Deployment in progress"]
  ELSE IF GreaterThanZero(st.succeeded)
       THEN [status |-> "completed", phase |-> "deployed",
             message |-> "Build and deployment successful"]
       ELSE IF GreaterThanZero(st.failed)
       THEN [status |-> "failed", phase |-> "failed", message |-> "Build failed"]
       ELSE [status |-> "running", phase |-> "building", message |-> "Build in progress"]

StatusNotFoundMessage(v) ==
  IF v = "direct" THEN <<"Deployment not found">> ELSE <<"Job not found">>

\* The handler up to its await: the read is issued.
Status(q, jid) ==
  /\ qpc[q] \in {"idle", "done"}
  /\ qpc' = [qpc EXCEPT ![q] = "read"]
  /\ qJob' = [qJob EXCEPT ![q] = jid]
  /\ qKey' = [qKey EXCEPT ![q] = StatusKey(variant, jid)]
  /\ qResp' = [qResp EXCEPT ![q] = NoStatusResponse]
  /\ qRepeat' = [qRepeat EXCEPT ![q] = FALSE]
  /\ UNCHANGED <<variant, clock, store, faultsLeft, deployVars, wsVars, ctrlLeft,
                 observed, logs>>

\* A handler that deletes the resource once it has reported it completed.
StatusReadOk_Cleanup(q) ==
  /\ qpc[q] = "read"
  /\ qKey[q] \in DOMAIN store
  /\ LET c == Classify(variant, store[qKey[q]].status)
     IN /\ qResp' = [qResp EXCEPT ![q] =
             [code |-> 200, error |-> Undefined, job_id |-> qJob[q],
              status |-> c.status, phase |-> c.phase, message |-> c.message,
              timestamp |-> clock]]
        /\ store' = IF c.status = "completed"
                    THEN [k \in DOMAIN store \ {qKey[q]} |-> store[k]]
                    ELSE store
        /\ observed' =
             IF c.status = "completed"
             THEN observed \cup {<<qJob[q], qKey[q]>>}
             ELSE observed
  /\ qRepeat' = [qRepeat EXCEPT ![q] = \E o \in observed : o[1] = qJob[q]]
  /\ qpc' = [qpc EXCEPT ![q] = "done"]
  /\ UNCHANGED <<variant, clock, faultsLeft, deployVars, wsVars, qJob, qKey, ctrlLeft,
                 logs>>

\* The read returns the resource: the status is classified and answered 200.
StatusReadOk(q) ==
  /\ qpc[q] = "read"
  /\ qKey[q] \in DOMAIN store
  /\ LET c == Classify(variant, store[qKey[q]].status)
     IN /\ qResp' = [qResp EXCEPT ![q] =
             [code |-> 200, error |-> Undefined, job_id |-> qJob[q],
              status |-> c.status, phase |-> c.phase, message |-> c.message,
              timestamp |-> clock]]
        /\ observed' =
             IF c.status = "completed"
             THEN observed \cup {<<qJob[q], qKey[q]>>}
             ELSE observed
  /\ qRepeat' = [qRepeat EXCEPT ![q] = \E o \in observed : o[1] = qJob[q]]
  /\ qpc' = [qpc EXCEPT ![q] = "done"]
  /\ UNCHANGED <<variant, clock, store, faultsLeft, deployVars, wsVars, qJob, qKey,
                 ctrlLeft, logs>>

\* A catch block without the not-found case.
StatusReadThrows_Always500(q, e) ==
  /\ qpc[q] = "read"
  /\ e \in (IF qKey[q] \in DOMAIN store THEN {} ELSE {NotFoundError})
             \cup InjectedErrors("read")
  /\ faultsLeft' = IF e = NotFoundError THEN faultsLeft ELSE faultsLeft - 1
  /\ qResp' = [qResp EXCEPT ![q] =
       [NoStatusResponse EXCEPT !.code = 500, !.error = e.message]]
  /\ qRepeat' = [qRepeat EXCEPT ![q] = \E o \in observed : o[1] = qJob[q]]
  /\ qpc' = [qpc EXCEPT ![q] = "done"]
  /\ UNCHANGED <<variant, clock, store, deployVars, wsVars, qJob, qKey, ctrlLeft,
                 observed, logs>>

\* The read throws: 404 for not-found, otherwise 500 with the message.
StatusReadThrows(q, e) ==
  /\ qpc[q] = "read"
  /\ e \in (IF qKey[q] \in DOMAIN store THEN {} ELSE {NotFoundError})
             \cup InjectedErrors("read")
  /\ faultsLeft' = IF e = NotFoundError THEN faultsLeft ELSE faultsLeft - 1
  /\ qResp' = [qResp EXCEPT ![q] =
       [NoStatusResponse EXCEPT
          !.code = IF IsNotFound(e) THEN 404 ELSE 500,
          !.error = IF IsNotFound(e) THEN StatusNotFoundMessage(variant) ELSE e.message]]
  /\ qRepeat' = [qRepeat EXCEPT ![q] = \E o \in observed : o[1] = qJob[q]]
  /\ qpc' = [qpc EXCEPT ![q] = "done"]
  /\ UNCHANGED <<variant, clock, store, deployVars, wsVars, qJob, qKey, ctrlLeft,
                 observed, logs>>

(***************************************************************************)
(* GET /logs/:jobId.                                                       *)
(***************************************************************************)
NoLabel == Undefined

\* The pods the cluster runs for a resource. A Deployment that reports
\* replicas has a pod carrying the labels of its template; a Job the
\* controller has acted on has a pod labelled job-name = the Job's name.
PodsOf(key) ==
  LET res == store[key]
  IN CASE key[1] = "Deployment" ->
            IF GreaterThanZero(res.status.replicas)
            THEN {[owner |-> key,
                   labels |-> [app |-> res.spec.labels, job_name |-> NoLabel],
                   running |-> GreaterThanZero(res.status.readyReplicas)]}
            ELSE {}
       [] key[1] = "Job" ->
            IF res.status # NewStatus
            THEN {[owner |-> key,
                   labels |-> [app |-> NoLabel, job_name |-> res.spec.name],
                   running |-> TRUE]}
            ELSE {}
       [] OTHER -> {}

Pods == UNION {PodsOf(key) : key \in DOMAIN store}

\* listNamespacedPod with the label selector job-name=<jobId>.
PodsOfJob(jid) == {p \in Pods : p.labels.job_name = jid}

NoPod == <<"", Undefined>>
NoLogs == [pc |-> "idle", jobId |-> Undefined, pod |-> NoPod, code |-> 0, error |-> Undefined]

\* The handler up to its first await: the pods are listed.
Logs(q, jid) ==
  /\ logs[q].pc \in {"idle", "done"}
  /\ logs' = [logs EXCEPT ![q] = [NoLogs EXCEPT !.pc = "list", !.jobId = jid]]
  /\ UNCHANGED <<variant, clock, store, faultsLeft, deployVars, wsVars,
                 qpc, qJob, qKey, qResp, qRepeat, ctrlLeft, observed>>

\* The list returns: 404 when it is empty, otherwise the log of its first
\* pod is opened.
LogsListed(q) ==
  /\ logs[q].pc = "list"
  /\ IF PodsOfJob(logs[q].jobId) = {}
     THEN logs' = [logs EXCEPT ![q].pc = "done", ![q].code = 404,
                               ![q].error = <<"Pod not found">>]
     ELSE \E p \in PodsOfJob(logs[q].jobId) :
            logs' = [logs EXCEPT ![q].pc = "open", ![q].pod = p.owner]
  /\ UNCHANGED <<variant, clock, store, faultsLeft, deployVars, wsVars,
                 qpc, qJob, qKey, qResp, qRepeat, ctrlLeft, observed>>

\* readNamespacedPodLog returns the stream, which is piped to the response.
LogsStreamed(q) ==
  /\ logs[q].pc = "open"
  /\ logs' = [logs EXCEPT ![q].pc = "done", ![q].code = 200]
  /\ UNCHANGED <<variant, clock, store, faultsLeft, deployVars, wsVars,
                 qpc, qJob, qKey, qResp, qRepeat, ctrlLeft, observed>>

\* Either call throws: 500 with the message.
LogsThrows(q, e) ==
  /\ logs[q].pc \in {"list", "open"}
  /\ e \in InjectedErrors("read")
  /\ faultsLeft' = faultsLeft - 1
  /\ logs' = [logs EXCEPT ![q].pc = "done", ![q].code = 500, ![q].error = e.message]
  /\ UNCHANGED <<variant, clock, store, deployVars, wsVars,
                 qpc, qJob, qKey, qResp, qRepeat, ctrlLeft, observed>>

(***************************************************************************)
(* The WebSocket server (server.js).                                       *)
(***************************************************************************)
\* wss.on('connection'): the socket joins wss.clients with no subscriptions.
Connect(c) ==
  /\ readyState[c] = "NONE"
  /\ readyState' = [readyState EXCEPT ![c] = "OPEN"]
  /\ clients' = clients \cup {c}
  /\ subscribedJobs' = [subscribedJobs EXCEPT ![c] = {}]
  /\ UNCHANGED <<variant, clock, store, faultsLeft, deployVars, received,
                 published, statusVars, observed>>

\* The subscription set after ws.on('message') has handled message m, whose
\* text either parses to an object with action and job_id or does not parse.
AfterMessage(jobs, m) ==
  IF ~m.parses THEN jobs
  ELSE IF m.action = "subscribe" /\ ~Falsy(m.job_id) THEN jobs \cup {m.job_id}
  ELSE IF m.action = "unsubscribe" /\ ~Falsy(m.job_id) THEN jobs \ {m.job_id}
  ELSE jobs

\* A handler that keeps one subscription set for the whole server.
Message_SharedSet(c, m) ==
  /\ readyState[c] = "OPEN"
  /\ subscribedJobs' = [x \in Conns |-> AfterMessage(subscribedJobs[x], m)]
  /\ UNCHANGED <<variant, clock, store, faultsLeft, deployVars, clients, readyState,
                 received, published, statusVars, observed>>

\* A handler that sends a new subscriber the events its job has already had.
Message_Replay(c, m) ==
  /\ readyState[c] = "OPEN"
  /\ subscribedJobs' = [subscribedJobs EXCEPT ![c] = AfterMessage(subscribedJobs[c], m)]
  /\ received' =
       IF m.parses /\ m.action = "subscribe" /\ ~Falsy(m.job_id)
       THEN LET past == SelectSeq(published, LAMBDA p : p.event.job_id = m.job_id)
            IN [received EXCEPT ![c] = @ \o [i \in 1..Len(past) |-> past[i].event]]
       ELSE received
  /\ UNCHANGED <<variant, clock, store, faultsLeft, deployVars, clients, readyState,
                 published, statusVars, observed>>

Message(c, m) ==
  /\ readyState[c] = "OPEN"
  /\ subscribedJobs' = [subscribedJobs EXCEPT ![c] = AfterMessage(subscribedJobs[c], m)]
  /\ UNCHANGED <<variant, clock, store, faultsLeft, deployVars, clients, readyState,
                 received, published, statusVars, observed>>

\* The closing handshake starts: the socket is no longer OPEN but still in
\* wss.clients.
CloseStart(c) ==
  /\ readyState[c] = "OPEN"
  /\ readyState' = [readyState EXCEPT ![c] = "CLOSING"]
  /\ UNCHANGED <<variant, clock, store, faultsLeft, deployVars, clients,
                 subscribedJobs, received, published, statusVars, observed>>

\* ws.on('close'): the socket has left wss.clients; the handler only logs.
CloseEnd(c) ==
  /\ readyState[c] = "CLOSING"
  /\ readyState' = [readyState EXCEPT ![c] = "CLOSED"]
  /\ clients' = clients \ {c}
  /\ UNCHANGED <<variant, clock, store, faultsLeft, deployVars, subscribedJobs,
                 received, published, statusVars, observed>>

(***************************************************************************)
(* The cluster acting on its own: controllers report status, and resources *)
(* are deleted by others.                                                  *)
(***************************************************************************)
Counts == {UndefinedNum} \cup (0..MaxCount)

StatusValues(kind) ==
  IF kind = "Deployment"
  THEN {[NewStatus EXCEPT !.replicas = n, !.readyReplicas = m] : n, m \in Counts}
  ELSE IF kind = "Job"
  THEN {[NewStatus EXCEPT !.succeeded = n, !.failed = m] : n, m \in Counts}
  ELSE {NewStatus}

ClusterReports(key, st) ==
  /\ ctrlLeft > 0
  /\ key \in DOMAIN store
  /\ st \in StatusValues(key[1])
  /\ st # store[key].status
  /\ store' = [store EXCEPT ![key].status = st]
  /\ ctrlLeft' = ctrlLeft - 1
  /\ foreign' = [x \in Reqs |-> foreign[x] \/ pc[x] = "await"]
  /\ observed' = StillObserved
  /\ UNCHANGED <<variant, clock, faultsLeft, pc, body, args, jobId, calls, resp,
                 startStore, doneAtStart, endStore, wsVars,
                 qpc, qJob, qKey, qResp, qRepeat, logs>>

ClusterDeletes(key) ==
  /\ ctrlLeft > 0
  /\ key \in DOMAIN store
  /\ store' = [k \in DOMAIN store \ {key} |-> store[k]]
  /\ ctrlLeft' = ctrlLeft - 1
  /\ foreign' = [x \in Reqs |-> foreign[x] \/ pc[x] = "await"]
  /\ observed' = StillObserved
  /\ UNCHANGED <<variant, clock, faultsLeft, pc, body, args, jobId, calls, resp,
                 startStore, doneAtStart, endStore, wsVars,
                 qpc, qJob, qKey, qResp, qRepeat, logs>>

(***************************************************************************)
(* The deploy specification: requests arrive in any order and interleave   *)
(* at their store calls.                                                   *)
(***************************************************************************)
NoBody ==
  [image_name |-> Undefined, app_name |-> Undefined, port |-> UndefinedNum,
   registry_auth |-> Undefined, domain |-> Undefined, repo_url |-> Undefined,
   registry |-> Undefined]

AppA == <<"a">>
ImageI == <<"i">>
RepoR == <<"g">>
CustomDomain == <<"d">>

\* The request bodies a client sends: the complete ones, and each way of
\* leaving out a required field.
FullBody == [NoBody EXCEPT !.app_name = AppA, !.image_name = ImageI, !.repo_url = RepoR]

ValidBodies ==
  {[FullBody EXCEPT !.port = 4000], [FullBody EXCEPT !.domain = CustomDomain]}

DeployBodies ==
  ValidBodies \cup
  {[FullBody EXCEPT !.app_name = Undefined], [FullBody EXCEPT !.app_name = <<>>],
   [FullBody EXCEPT !.image_name = Undefined], [FullBody EXCEPT !.image_name = <<>>],
   [FullBody EXCEPT !.repo_url = Undefined]}

\* A deploy made before the model starts, whose resources may still exist.
PriorArgs(v) ==
  DeployArgs(v, [NoBody EXCEPT !.app_name = AppA, !.image_name = <<"o">>,
                               !.repo_url = RepoR])

PriorStatus == [NewStatus EXCEPT !.replicas = 1, !.readyReplicas = 1]

ConvergedKinds(v) ==
  IF v = "direct" THEN {"Deployment", "Service", "Ingress"}
  ELSE {"Deployment", "Service"}

\* What an earlier deploy of a can have converged: it stopped at a failure
\* or ran to the end.
PriorKinds(v) ==
  IF v = "direct"
  THEN {{}, {"Deployment"}, {"Deployment", "Service"},
        {"Deployment", "Service", "Ingress"}}
  ELSE {{}, {"Deployment"}, {"Deployment", "Service"}}

\* The store after an earlier deploy of a that converged kinds.
PriorStore(v, kinds) ==
  [key \in {<<k, ResourceName(k, PriorArgs(v), Undefined)>> : k \in kinds} |->
     [spec |-> Desired(v, key[1], PriorArgs(v), Undefined), status |-> PriorStatus]]


InitDeploy ==
  /\ pc = [r \in Reqs |-> "idle"]
  /\ body = [r \in Reqs |-> NoBody]
  /\ args = [r \in Reqs |-> NoArgs]
  /\ jobId = [r \in Reqs |-> Undefined]
  /\ calls = [r \in Reqs |-> <<>>]
  /\ resp = [r \in Reqs |-> NoResponse]
  /\ foreign = [r \in Reqs |-> FALSE]
  /\ startStore = [r \in Reqs |-> <<>>]
  /\ endStore = [r \in Reqs |-> <<>>]
  /\ doneAtStart = [r \in Reqs |-> {}]

InitNoQueries ==
  /\ qpc = [q \in Queries |-> "idle"]
  /\ qJob = [q \in Queries |-> Undefined]
  /\ qKey = [q \in Queries |-> <<"", Undefined>>]
  /\ qResp = [q \in Queries |-> NoStatusResponse]
  /\ qRepeat = [q \in Queries |-> FALSE]
  /\ observed = {}
  /\ ctrlLeft = 0
  /\ logs = [q \in Queries |-> NoLogs]

InitClients ==
  /\ clients = {}
  /\ readyState = [c \in Conns |-> "NONE"]
  /\ subscribedJobs = [c \in Conns |-> {}]
  /\ received = [c \in Conns |-> <<>>]
  /\ published = <<>>

Init ==
  /\ variant \in {"direct", "build"}
  /\ clock = FirstClock
  /\ \E kinds \in PriorKinds(variant) : store = PriorStore(variant, kinds)
  /\ faultsLeft = MaxFaults
  /\ InitDeploy
  /\ InitClients
  /\ InitNoQueries

Next ==
  \/ \E r \in Reqs, b \in DeployBodies : Deploy(r, b)
  \/ \E r \in Reqs : ReplaceOk(r)
  \/ \E r \in Reqs, e \in {NotFoundError, ForbiddenError, NetworkError} : ReplaceThrows(r, e)
  \/ \E r \in Reqs : CreateOk(r)
  \/ \E r \in Reqs, e \in {NotFoundError, AlreadyExistsError, ForbiddenError, NetworkError} :
       CreateThrows(r, e)
  \/ Tick

Spec == Init /\ [][Next]_vars

(***************************************************************************)
(* The status specification: clients poll job ids while the cluster        *)
(* reports on, and others delete, resources deployed earlier.              *)
(***************************************************************************)
AppHyphen == <<"a","-","b">>

\* Job ids handed out by earlier deploys of a and of a-b, and polled now.
PolledJobIds == {JobIdOf(AppA, FirstClock), JobIdOf(AppHyphen, FirstClock)}

\* What is left of those deploys: the Deployment of a (server.js), the Job of
\* the deploy of a (build variant), in the status st the cluster reports.
DeployedStore(v, st) ==
  IF v = "direct"
  THEN <<"Deployment", AppA>> :>
         [spec |-> DeploymentDoc(v, PriorArgs(v)), status |-> st]
  ELSE <<"Job", JobIdOf(AppA, FirstClock)>> :>
         [spec |-> JobDoc(JobIdOf(AppA, FirstClock), PriorArgs(v)), status |-> st]

InitRequestsDone ==
  /\ pc = [r \in Reqs |-> "done"]
  /\ body = [r \in Reqs |-> NoBody]
  /\ args = [r \in Reqs |-> NoArgs]
  /\ jobId = [r \in Reqs |-> Undefined]
  /\ calls = [r \in Reqs |-> <<>>]
  /\ resp = [r \in Reqs |-> NoResponse]
  /\ foreign = [r \in Reqs |-> FALSE]
  /\ startStore = [r \in Reqs |-> <<>>]
  /\ endStore = [r \in Reqs |-> <<>>]
  /\ doneAtStart = [r \in Reqs |-> {}]

InitStatus ==
  /\ variant \in {"direct", "build"}
  /\ clock = FirstClock
  /\ \E st \in StatusValues(IF variant = "direct" THEN "Deployment" ELSE "Job") :
       store = DeployedStore(variant, st)
  /\ faultsLeft = MaxFaults
  /\ InitRequestsDone
  /\ InitClients
  /\ qpc = [q \in Queries |-> "idle"]
  /\ qJob = [q \in Queries |-> Undefined]
  /\ qKey = [q \in Queries |-> <<"", Undefined>>]
  /\ qResp = [q \in Queries |-> NoStatusResponse]
  /\ qRepeat = [q \in Queries |-> FALSE]
  /\ observed = {}
  /\ ctrlLeft = MaxCtrl
  /\ logs = [q \in Queries |-> NoLogs]

NextStatus ==
  \/ \E q \in Queries, j \in PolledJobIds : Status(q, j)
  \/ \E q \in Queries : StatusReadOk(q)
  \/ \E q \in Queries, e \in {NotFoundError, ForbiddenError, NetworkError} :
       StatusReadThrows(q, e)
  \/ \E key \in DOMAIN store : \E st \in StatusValues(key[1]) : ClusterReports(key, st)
  \/ \E key \in DOMAIN store : ClusterDeletes(key)
  \/ Tick

SpecStatus == InitStatus /\ [][NextStatus]_vars

(***************************************************************************)
(* The round-trip specification: server.js deploys an app of any name into *)
(* an empty cluster and the job id it answers with is polled.              *)
(***************************************************************************)
MaxNameLen == 3
NameChars == {"a", "-", "1"}

RECURSIVE StringsOfLength(_)
StringsOfLength(n) ==
  IF n = 0 THEN {<<>>}
  ELSE {<<c>> \o t : c \in NameChars, t \in StringsOfLength(n - 1)}

\* The names the cluster accepts for a resource: they start and end with a
\* letter or digit.
AppNames ==
  {n \in UNION {StringsOfLength(k) : k \in 1..MaxNameLen} :
     n[1] # "-" /\ n[Len(n)] # "-"}

\* The job ids answered with 200 so far.
AnsweredJobIds == {resp[r].job_id : r \in {x \in Reqs : resp[x].code = 200}}

InitOneRequest ==
  /\ pc = [r \in Reqs |-> IF r = 1 THEN "idle" ELSE "done"]
  /\ body = [r \in Reqs |-> NoBody]
  /\ args = [r \in Reqs |-> NoArgs]
  /\ jobId = [r \in Reqs |-> Undefined]
  /\ calls = [r \in Reqs |-> <<>>]
  /\ resp = [r \in Reqs |-> NoResponse]
  /\ foreign = [r \in Reqs |-> FALSE]
  /\ startStore = [r \in Reqs |-> <<>>]
  /\ endStore = [r \in Reqs |-> <<>>]
  /\ doneAtStart = [r \in Reqs |-> {}]

InitRoundTrip ==
  /\ variant = "direct"
  /\ clock \in FirstClock..(FirstClock + MaxTicks)
  /\ store = <<>>
  /\ faultsLeft = 0
  /\ InitOneRequest
  /\ InitClients
  /\ InitNoQueries

NextRoundTrip ==
  \/ \E n \in AppNames : Deploy(1, [FullBody EXCEPT !.app_name = n])
  \/ ReplaceThrows(1, NotFoundError)
  \/ CreateOk(1)
  \/ \E j \in AnsweredJobIds : Status(1, j)
  \/ StatusReadOk(1)
  \/ StatusReadThrows(1, NotFoundError)

SpecRoundTrip == InitRoundTrip /\ [][NextRoundTrip]_vars

(***************************************************************************)
(* The log specification: server.js with WebSocket clients that connect,   *)
(* subscribe, unsubscribe and close while a deploy runs.                   *)
(***************************************************************************)
\* The job ids a client may name: the one a deploy of a gets now, the one a
\* deploy of b would get, and "error".
NamedJobIds == {JobIdOf(AppA, FirstClock), JobIdOf(<<"b">>, FirstClock), ErrorJobId}

ClientMessages ==
  {[parses |-> TRUE, action |-> a, job_id |-> j] :
     a \in {"subscribe", "unsubscribe"}, j \in NamedJobIds}
  \cup {[parses |-> TRUE, action |-> "subscribe", job_id |-> Undefined],
        [parses |-> TRUE, action |-> "unsubscribe", job_id |-> <<>>],
        [parses |-> TRUE, action |-> "status", job_id |-> JobIdOf(AppA, FirstClock)],
        [parses |-> FALSE, action |-> "", job_id |-> Undefined]}

InitLog ==
  /\ variant = "direct"
  /\ clock = FirstClock
  /\ store = PriorStore(variant, {"Deployment", "Service"})
  /\ faultsLeft = MaxFaults
  /\ InitOneRequest
  /\ InitClients
  /\ InitNoQueries

NextLog ==
  \/ \E c \in Conns : Connect(c)
  \/ \E c \in Conns, m \in ClientMessages : Message(c, m)
  \/ \E c \in Conns : CloseStart(c)
  \/ \E c \in Conns : CloseEnd(c)
  \/ \E r \in Reqs : Deploy(r, FullBody)
  \/ \E r \in Reqs : ReplaceOk(r)
  \/ \E r \in Reqs, e \in {NotFoundError, ForbiddenError} : ReplaceThrows(r, e)
  \/ \E r \in Reqs : CreateOk(r)

SpecLog == InitLog /\ [][NextLog]_vars

(***************************************************************************)
(* The logs specification: an app is deployed into an empty cluster, the   *)
(* cluster starts its pods, and the logs of the job id answered are asked  *)
(* for.                                                                    *)
(***************************************************************************)
InitLogs ==
  /\ variant \in {"direct", "build"}
  /\ clock = FirstClock
  /\ store = <<>>
  /\ faultsLeft = MaxFaults
  /\ InitOneRequest
  /\ InitClients
  /\ qpc = [q \in Queries |-> "idle"]
  /\ qJob = [q \in Queries |-> Undefined]
  /\ qKey = [q \in Queries |-> <<"", Undefined>>]
  /\ qResp = [q \in Queries |-> NoStatusResponse]
  /\ qRepeat = [q \in Queries |-> FALSE]
  /\ observed = {}
  /\ ctrlLeft = MaxCtrl
  /\ logs = [q \in Queries |-> NoLogs]

NextLogs ==
  \/ \E b \in ValidBodies : Deploy(1, b)
  \/ ReplaceThrows(1, NotFoundError)
  \/ CreateOk(1)
  \/ \E key \in DOMAIN store : \E st \in StatusValues(key[1]) : ClusterReports(key, st)
  \/ \E q \in Queries, j \in AnsweredJobIds : Logs(q, j)
  \/ \E q \in Queries : LogsListed(q)
  \/ \E q \in Queries : LogsStreamed(q)
  \/ \E q \in Queries, e \in {ForbiddenError, NetworkError} : LogsThrows(q, e)

SpecLogs == InitLogs /\ [][NextLogs]_vars

(***************************************************************************)
(* Properties of POST /deploy.                                             *)
(***************************************************************************)
CallsOfKind(r, kind) == {i \in DOMAIN calls[r] : calls[r][i].kind = kind}
OpsOfKind(r, kind, op) == {i \in CallsOfKind(r, kind) : calls[r][i].op = op}

\* The convergence of kind has started and none of its calls is in flight.
ConvergenceEnded(r, kind) ==
  /\ CallsOfKind(r, kind) # {}
  /\ \A i \in CallsOfKind(r, kind) : calls[r][i].result # "pending"

ConvergenceSucceeded(r, kind) ==
  \E i \in CallsOfKind(r, kind) : calls[r][i].result = "ok"

HeldAtStart(r, kind) == KeyOf(r, kind) \in DOMAIN startStore[r]

\* A store call failed, other than a replace answered 404.
CallFailed(c) ==
  /\ c.error # NoError
  /\ ~(c.op = "replace" /\ c.error.statusCode = 404)

LacksRequired(b) == Falsy(b.app_name) \/ Falsy(b.image_name)

\* C1: a POST /deploy whose body lacks app_name or image_name (missing or
\* empty) is answered 400 by the step that receives it, that step leaves the
\* store as it was, and no store call is ever issued for the request.
C1_MissingFieldsRejected ==
  /\ [](\A r \in Reqs :
          pc[r] # "idle" /\ LacksRequired(body[r]) =>
            pc[r] = "done" /\ resp[r].code = 400 /\ calls[r] = <<>>)
  /\ [][\A r \in Reqs :
          pc[r] = "idle" /\ pc'[r] # "idle" /\ LacksRequired(body'[r]) =>
            store' = store /\ resp'[r].code = 400 /\ calls'[r] = <<>>]_vars

C1_Witness ==
  \E r \in Reqs :
    /\ pc[r] = "done" /\ resp[r].code = 400 /\ calls[r] = <<>>
    /\ Falsy(body[r].app_name) /\ ~Falsy(body[r].image_name)
    /\ store # <<>>

\* C2 as stated: run alone, the Deployment convergence issues one create and
\* no replace when the store holds no Deployment of that name, and one replace
\* and no create when it holds one.
C2_OneCallPerConvergence ==
  \A r \in Reqs :
    ~foreign[r] /\ ConvergenceEnded(r, "Deployment") =>
      IF HeldAtStart(r, "Deployment")
      THEN /\ Cardinality(OpsOfKind(r, "Deployment", "replace")) = 1
           /\ Cardinality(OpsOfKind(r, "Deployment", "create")) = 0
      ELSE /\ Cardinality(OpsOfKind(r, "Deployment", "create")) = 1
           /\ Cardinality(OpsOfKind(r, "Deployment", "replace")) = 0

\* C2, amended: run alone, the Deployment convergence always issues exactly
\* one replace call, first. When the store holds no Deployment of that name
\* the replace is not answered with success, and exactly one create call
\* follows when it is answered not-found; when the store holds one, the
\* replace is not answered not-found and no create call is issued.
C2_ReplaceThenCreate ==
  \A r \in Reqs :
    ~foreign[r] /\ ConvergenceEnded(r, "Deployment") =>
      LET first == CHOOSE i \in CallsOfKind(r, "Deployment") :
                     \A j \in CallsOfKind(r, "Deployment") : i <= j
          creates == OpsOfKind(r, "Deployment", "create")
      IN /\ Cardinality(OpsOfKind(r, "Deployment", "replace")) = 1
         /\ calls[r][first].op = "replace"
         /\ IF HeldAtStart(r, "Deployment")
            THEN creates = {} /\ calls[r][first].result # "notfound"
            ELSE /\ calls[r][first].result # "ok"
                 /\ calls[r][first].result = "notfound" => creates = {first + 1}
                 /\ calls[r][first].result # "notfound" => creates = {}
                 /\ ConvergenceSucceeded(r, "Deployment") =>
                      calls[r][first + 1].result = "ok"

\* One request found no Deployment and created it after its replace was
\* answered not-found; a later one found it and replaced it.
C2_Witness ==
  \E r1, r2 \in Reqs :
    /\ ~foreign[r1] /\ ~foreign[r2]
    /\ ~HeldAtStart(r1, "Deployment") /\ ConvergenceSucceeded(r1, "Deployment")
    /\ Cardinality(OpsOfKind(r1, "Deployment", "create")) = 1
    /\ Cardinality(OpsOfKind(r1, "Deployment", "replace")) = 1
    /\ HeldAtStart(r2, "Deployment") /\ ConvergenceSucceeded(r2, "Deployment")
    /\ OpsOfKind(r2, "Deployment", "create") = {}

\* C3: the store calls of one request are strictly sequential and ordered
\* Deployment, Service, Ingress: only the last call can be in flight, a
\* Service call follows a successful Deployment call, an Ingress call follows
\* a successful Service call, and every call after the first follows either a
\* success (the next kind's replace) or a not-found replace (the same kind's
\* create).
C3_SequentialOrder ==
  \A r \in Reqs :
    /\ \A i \in DOMAIN calls[r] : calls[r][i].result = "pending" => i = Len(calls[r])
    /\ \A j \in CallsOfKind(r, "Service") :
         \E i \in CallsOfKind(r, "Deployment") : i < j /\ calls[r][i].result = "ok"
    /\ \A j \in CallsOfKind(r, "Ingress") :
         \E i \in CallsOfKind(r, "Service") : i < j /\ calls[r][i].result = "ok"
    /\ \A j \in CallsOfKind(r, "Deployment") :
         \A i \in CallsOfKind(r, "Service") \cup CallsOfKind(r, "Ingress") : j < i
    /\ \A j \in CallsOfKind(r, "Service") :
         \A i \in CallsOfKind(r, "Ingress") : j < i
    /\ \A j \in DOMAIN calls[r] :
         j > 1 =>
           \/ calls[r][j - 1].result = "ok" /\ calls[r][j].op = "replace"
              /\ calls[r][j].kind # calls[r][j - 1].kind
           \/ calls[r][j - 1].result = "notfound" /\ calls[r][j].op = "create"
              /\ calls[r][j - 1].op = "replace"
              /\ calls[r][j].kind = calls[r][j - 1].kind

C3_Witness ==
  \E r \in Reqs :
    /\ variant = "direct"
    /\ pc[r] = "await"
    /\ LastCall(r).kind = "Ingress" /\ LastCall(r).op = "create"
    /\ ConvergenceSucceeded(r, "Deployment") /\ ConvergenceSucceeded(r, "Service")

\* C4: a store call that fails, other than a replace answered 404, is the
\* last call of its request, and the request is answered 500 with the
\* failure's message.
C4_FailureAborts ==
  \A r \in Reqs :
    \A i \in DOMAIN calls[r] :
      CallFailed(calls[r][i]) =>
        /\ i = Len(calls[r])
        /\ pc[r] = "done"
        /\ resp[r].code = 500
        /\ resp[r].error = calls[r][i].error.message

\* A replace failed with something other than 404 after the Deployment had
\* converged, in a run where another request's create failed.
C4_Witness ==
  \E r \in Reqs :
    /\ pc[r] = "done" /\ resp[r].code = 500
    /\ LastCall(r).op = "replace" /\ LastCall(r).kind = "Service"
    /\ LastCall(r).error = ForbiddenError
    /\ ConvergenceSucceeded(r, "Deployment")

\* C5: no rollback. The step in which a request fails leaves the store as it
\* was, and when no other writer was active during the request, every resource
\* the request had converged is in the store with the request's document when
\* the 500 response is sent.
C5_NoRollback ==
  /\ [](\A r \in Reqs :
          pc[r] = "done" /\ resp[r].code = 500 /\ ~foreign[r] =>
            \A k \in ConvergedKinds(variant) :
              ConvergenceSucceeded(r, k) =>
                /\ KeyOf(r, k) \in DOMAIN endStore[r]
                /\ endStore[r][KeyOf(r, k)].spec =
                     Desired(variant, k, args[r], jobId[r]))
  /\ [][\A r \in Reqs :
          pc[r] = "await" /\ pc'[r] = "done" /\ resp'[r].code = 500 =>
            store' = store]_vars

C5_Witness ==
  \E r \in Reqs :
    /\ variant = "direct"
    /\ pc[r] = "done" /\ resp[r].code = 500 /\ ~foreign[r]
    /\ LastCall(r).kind = "Ingress"
    /\ ~HeldAtStart(r, "Deployment") /\ ~HeldAtStart(r, "Service")
    /\ endStore[r][KeyOf(r, "Deployment")].spec = DeploymentDoc(variant, args[r])
    /\ endStore[r][KeyOf(r, "Service")].spec = ServiceDoc(args[r])

\* r2 repeats r1: r1 was answered 200 before r2 arrived, r2 carries the same
\* request, and nothing was written between r1's answer and r2's arrival or by
\* anyone else while r2 ran.
Repeats(r1, r2) ==
  /\ r1 # r2
  /\ r1 \in doneAtStart[r2]
  /\ resp[r1].code = 200
  /\ body[r2] = body[r1]
  /\ startStore[r2] = endStore[r1]
  /\ ~foreign[r2]

\* What r2 leaves of r1's Deployment, Service and Ingress.
SameAsAfter(r1, r2) ==
  \A k \in ConvergedKinds(variant) :
    LET key == KeyOf(r1, k)
        now == IF pc[r2] = "done" THEN endStore[r2] ELSE store
    IN key \in DOMAIN now /\ now[key] = endStore[r1][key]

\* C6 as stated: a second run of an unchanged request leaves the Deployment,
\* Service and Ingress as the first run left them, and succeeds.
C6_IdempotentAndSucceeds ==
  \A r1, r2 \in Reqs :
    Repeats(r1, r2) =>
      /\ SameAsAfter(r1, r2)
      /\ pc[r2] = "done" => resp[r2].code = 200

\* C6, amended: a second run of an unchanged request leaves the Deployment,
\* Service and Ingress as the first run left them, whether it succeeds or
\* not; it issues no create call for them, and it succeeds unless the store
\* answers one of its calls with a failure.
C6_Idempotent ==
  \A r1, r2 \in Reqs :
    Repeats(r1, r2) =>
      /\ SameAsAfter(r1, r2)
      /\ \A k \in ConvergedKinds(variant) : OpsOfKind(r2, k, "create") = {}
      /\ pc[r2] = "done" =>
           \/ resp[r2].code = 200
           \/ resp[r2].code = 500 /\ CallFailed(LastCall(r2))

C6_Witness ==
  \E r1, r2 \in Reqs :
    /\ Repeats(r1, r2)
    /\ pc[r2] = "done" /\ resp[r2].code = 200
    /\ clock > FirstClock
    /\ jobId[r1] # jobId[r2]

(***************************************************************************)
(* Properties of the log channel.                                          *)
(***************************************************************************)
\* C7: whatever the connects, subscribes, unsubscribes, closes and publishes
\* so far, a step sends connection c only events whose job id is in c's
\* subscription set at that step, after what c was sent before.
C7_OnlyToSubscribers ==
  [][\A c \in Conns :
       /\ Len(received'[c]) >= Len(received[c])
       /\ SubSeq(received'[c], 1, Len(received[c])) = received[c]
       /\ \A i \in (Len(received[c]) + 1)..Len(received'[c]) :
            received'[c][i].job_id \in subscribedJobs[c]]_vars

\* A deploy published its events to a subscriber of its job id, while an open
\* connection that had unsubscribed from it and one subscribed to another job
\* id got nothing.
C7_Witness ==
  \E c1, c2 \in Conns :
    /\ c1 # c2
    /\ Len(received[c1]) >= 3
    /\ received[c1][1].job_id = jobId[1]
    /\ readyState[c2] = "OPEN"
    /\ subscribedJobs[c2] # {}
    /\ jobId[1] \notin subscribedJobs[c2]
    /\ received[c2] = <<>>

(***************************************************************************)
(* Properties of GET /status.                                              *)
(***************************************************************************)
\* s ends in a hyphen followed by one or more digits.
EndsInHyphenDigits(s) ==
  \E i \in 1..(Len(s) - 1) :
    s[i] = "-" /\ \A j \in (i + 1)..Len(s) : IsDigit(s[j])

\* C8: for an app name that does not end in a hyphen followed by digits, the
\* status query for the job id that POST /deploy answered with reads the
\* Deployment named after the app that was deployed.
C8_JobIdRoundTrip ==
  \A r \in Reqs, q \in Queries :
    /\ resp[r].code = 200
    /\ qpc[q] # "idle"
    /\ qJob[q] = resp[r].job_id
    /\ ~EndsInHyphenDigits(args[r].app_name)
    => /\ StatusAppName(qJob[q]) = args[r].app_name
       /\ qKey[q] = <<"Deployment", args[r].app_name>>

\* C9: a status query whose read returns the resource is answered with
\* exactly one of the three states, decided by the counters read: completed /
\* deployed exactly when the ready-replica (succeeded) count is above zero,
\* failed exactly when it is not and the replica count is zero (the failed
\* count is above zero), and running / deploying (building) otherwise. A
\* query whose read fails is answered without a state.
C9_StatusClassification ==
  [][\A q \in Queries :
       qpc[q] = "read" /\ qpc'[q] = "done" =>
         IF qKey[q] \in DOMAIN store /\ qResp'[q].code = 200
         THEN LET st == store[qKey[q]].status
                  done == IF variant = "direct" THEN st.readyReplicas >= 1
                          ELSE st.succeeded >= 1
                  bad == IF variant = "direct" THEN st.replicas = 0
                         ELSE st.failed >= 1
                  a == qResp'[q]
              IN /\ <<a.status, a.phase>> \in
                      {<<"completed", "deployed">>, <<"failed", "failed">>,
                       <<"running", IF variant = "direct" THEN "deploying"
                                    ELSE "building">>}
                 /\ a.status = "completed" <=> done
                 /\ a.status = "failed" <=> ~done /\ bad
                 /\ a.status = "running" <=> ~done /\ ~bad
                 /\ a.job_id = qJob[q]
         ELSE qResp'[q].code \in {404, 500} /\ qResp'[q].status = ""]_vars

\* Both terminal states have been answered, the failed one for a resource
\* whose success counter is zero or absent.
C9_Witness ==
  \E q1, q2 \in Queries :
    /\ qpc[q1] = "done" /\ qResp[q1].code = 200 /\ qResp[q1].status = "failed"
    /\ qpc[q2] = "done" /\ qResp[q2].code = 200 /\ qResp[q2].status = "completed"

AllKinds == {"Job", "Deployment", "Service", "Ingress"}

\* C11: requests for the same app name interleave at their store calls with
\* no lock; each request issues at most one replace and at most one create
\* per resource kind, and a call the store answers with a conflict is the
\* request's last call: the request is answered 500 with the conflict's
\* message.
C11_NoRetryOnConflict ==
  \A r \in Reqs :
    /\ \A k \in AllKinds :
         /\ Cardinality(OpsOfKind(r, k, "replace")) <= 1
         /\ Cardinality(OpsOfKind(r, k, "create")) <= 1
    /\ \A i \in DOMAIN calls[r] :
         calls[r][i].error.statusCode = 409 =>
           /\ i = Len(calls[r])
           /\ pc[r] = "done"
           /\ resp[r].code = 500
           /\ resp[r].error = calls[r][i].error.message

\* With no failure injected, one request's replace of the Deployment was
\* answered not-found, the other request created the Deployment meanwhile and
\* went on to a 200, and the first request's create met the conflict.
C11_Witness ==
  \E r1, r2 \in Reqs :
    /\ r1 # r2
    /\ faultsLeft = MaxFaults
    /\ args[r1].app_name = args[r2].app_name
    /\ r2 \notin doneAtStart[r1] /\ r1 \notin doneAtStart[r2]
    /\ Len(calls[r1]) = 2
    /\ calls[r1][1].kind = "Deployment" /\ calls[r1][1].result = "notfound"
    /\ calls[r1][2].op = "create" /\ calls[r1][2].error = AlreadyExistsError
    /\ pc[r1] = "done" /\ resp[r1].code = 500
    /\ pc[r2] = "done" /\ resp[r2].code = 200
    /\ OpsOfKind(r2, "Deployment", "create") # {}

(***************************************************************************)
(* The end-to-end postcondition of POST /deploy (server.js).               *)
(***************************************************************************)
\* s is app, a hyphen, and one or more digits.
IsJobIdFor(s, app) ==
  /\ Len(s) > Len(app) + 1
  /\ SubSeq(s, 1, Len(app)) = app
  /\ s[Len(app) + 1] = "-"
  /\ \A j \in (Len(app) + 2)..Len(s) : IsDigit(s[j])

\* The port of the request, 3000 when it names none.
RequestedPort(b) == IF b.port = UndefinedNum THEN 3000 ELSE b.port

\* C12: when server.js answers 200 to a request (image, app, port, no domain)
\* that ran alone, the store at that moment holds the Deployment app with one
\* replica, the image and the port, the Service app from port 80 to the port
\* selecting app, and the Ingress app-ingress from host app.<basedomain> to
\* Service app port 80; the response carries a job id app-<digits> and the
\* domain app.<basedomain>. No 200 is sent before every resource of the
\* request has been converged.
C12_EndToEnd ==
  \A r \in Reqs :
    /\ variant = "direct" /\ pc[r] = "done" /\ resp[r].code = 200
       /\ ~foreign[r] /\ Falsy(body[r].domain)
       => LET app == body[r].app_name
              port == RequestedPort(body[r])
              host == app \o BaseDomain
              dKey == <<"Deployment", app>>
              sKey == <<"Service", app>>
              iKey == <<"Ingress", app \o <<"-","i","n","g","r","e","s","s">> >>
          IN /\ {dKey, sKey, iKey} \subseteq DOMAIN endStore[r]
             /\ LET d == endStore[r][dKey].spec
                    sv == endStore[r][sKey].spec
                    ig == endStore[r][iKey].spec
                IN /\ d.kind = "Deployment" /\ d.name = app /\ d.replicas = 1
                   /\ d.image = body[r].image_name /\ d.containerPort = port
                   /\ d.matchLabels = app /\ d.labels = app
                   /\ sv.kind = "Service" /\ sv.name = app /\ sv.port = 80
                   /\ sv.targetPort = port /\ sv.selector = app
                   /\ ig.kind = "Ingress" /\ ig.host = host
                   /\ ig.serviceName = app /\ ig.servicePort = 80
             /\ IsJobIdFor(resp[r].job_id, app)
             /\ resp[r].domain = host
    /\ resp[r].code = 200 =>
         /\ pc[r] = "done"
         /\ \A k \in ConvergedKinds(variant) : ConvergenceSucceeded(r, k)

\* A request for port 4000 with no domain was answered 200 after it created
\* all three resources in an empty cluster.
C12_Witness ==
  \E r \in Reqs :
    /\ variant = "direct" /\ pc[r] = "done" /\ resp[r].code = 200 /\ ~foreign[r]
    /\ body[r].port = 4000 /\ Falsy(body[r].domain)
    /\ startStore[r] = <<>>
    /\ Cardinality(DOMAIN endStore[r]) = 3

(***************************************************************************)
(* Delivery of published events.                                           *)
(***************************************************************************)
\* The events of the publishes made while c was open and subscribed to their
\* job id, in order.
Delivered(c) ==
  LET sel == SelectSeq(published, LAMBDA p : c \in p.open /\ c \in p.subscribers)
  IN [i \in 1..Len(sel) |-> sel[i].event]

\* C13: at every moment, what a connection has been sent is exactly one
\* message for each publish made while it was open and subscribed to the
\* published job id, in order: nothing for a publish made while it was not
\* open, even with the job id in its subscription set, and nothing queued or
\* sent again later.
C13_ExactlyOncePerPublish ==
  \A c \in Conns : received[c] = Delivered(c)

\* One publish found a subscriber that was open, which got the event, and
\* another connection that still held the subscription but was closing or
\* closed, which got nothing.
C13_Witness ==
  \E c1, c2 \in Conns :
    \E i \in DOMAIN published :
      /\ c1 \in published[i].open /\ c1 \in published[i].subscribers
      /\ c2 \notin published[i].open /\ c2 \in published[i].subscribers
      /\ published[i].event \in {received[c1][j] : j \in DOMAIN received[c1]}
      /\ received[c2] = <<>>
      /\ readyState[c2] \in {"CLOSING", "CLOSED"}

(***************************************************************************)
(* The frame of a subscription message.                                    *)
(***************************************************************************)
\* m asks for a subscription change: it parses, its action is subscribe or
\* unsubscribe, and it names a job id.
WellFormed(m) ==
  /\ m.parses
  /\ m.action \in {"subscribe", "unsubscribe"}
  /\ m.job_id # Undefined /\ m.job_id # <<>>

\* C14: the step that handles message m on connection c leaves the
\* subscription set of every other connection, the store, and what every
\* connection has been sent as they were; a subscribe adds the job id to c's
\* set and an unsubscribe removes it; and a message that does not parse, has
\* another action or names no job id leaves every subscription set,
\* including c's, as it was.
C14_OwnSubscriptionsOnly ==
  [][\A c \in Conns, m \in ClientMessages :
       Message(c, m) =>
         /\ \A x \in Conns \ {c} : subscribedJobs'[x] = subscribedJobs[x]
         /\ store' = store
         /\ received' = received
         /\ WellFormed(m) /\ m.action = "subscribe" =>
              subscribedJobs'[c] = subscribedJobs[c] \cup {m.job_id}
         /\ WellFormed(m) /\ m.action = "unsubscribe" =>
              subscribedJobs'[c] = subscribedJobs[c] \ {m.job_id}
         /\ ~WellFormed(m) => subscribedJobs' = subscribedJobs]_vars

\* Two open connections hold different, non-empty subscription sets while
\* the store holds the resources of a deploy.
C14_Witness ==
  \E c1, c2 \in Conns :
    /\ readyState[c1] = "OPEN" /\ readyState[c2] = "OPEN"
    /\ subscribedJobs[c1] # {} /\ subscribedJobs[c2] # {}
    /\ subscribedJobs[c1] \cap subscribedJobs[c2] = {}
    /\ Cardinality(subscribedJobs[c1]) = 2
    /\ Cardinality(DOMAIN store) = 3

(***************************************************************************)
(* No replay.                                                              *)
(***************************************************************************)
EventsSent(c) == {received[c][j] : j \in DOMAIN received[c]}

\* C15: an event published while a connection was not subscribed to its job
\* id is never among the events sent to that connection, whatever the
\* connection subscribes to afterwards; and once the response that carries a
\* job id has been sent, the request publishes nothing more under that job
\* id, so a connection that subscribes only then is sent no event of that
\* deployment.
C15_NoReplay ==
  /\ [](\A c \in Conns : \A i \in DOMAIN published :
          c \notin published[i].subscribers => published[i].event \notin EventsSent(c))
  /\ [][\A r \in Reqs :
          resp[r].code = 200 =>
            \A i \in DOMAIN published' :
              published'[i].event.job_id = resp[r].job_id => i \in DOMAIN published]_vars

\* The deploy was answered 200 after publishing four events under its job
\* id to a subscriber; a connection that subscribed to the job id afterwards
\* is open and subscribed and has been sent nothing.
C15_Witness ==
  \E r \in Reqs : \E c1, c2 \in Conns :
    /\ resp[r].code = 200
    /\ Len(received[c1]) = 4
    /\ \A j \in DOMAIN received[c1] : received[c1][j].job_id = resp[r].job_id
    /\ readyState[c2] = "OPEN" /\ resp[r].job_id \in subscribedJobs[c2]
    /\ \A i \in DOMAIN published : c2 \notin published[i].subscribers
    /\ received[c2] = <<>>

(***************************************************************************)
(* The error mapping of GET /status.                                       *)
(***************************************************************************)
ReadErrors == {NotFoundError, ForbiddenError, NetworkError}

\* C16: when the read of a status query is answered not-found the query is
\* answered 404 with "Deployment not found" (server.js) or "Job not found"
\* (build variant); when the read fails in any other way the query is
\* answered 500 with the failure's message; either way the answer carries no
\* status, phase or job id, and the store is left as it was.
C16_StatusErrorMapping ==
  [][\A q \in Queries, e \in ReadErrors :
       StatusReadThrows(q, e) =>
         LET a == qResp'[q]
         IN /\ e.statusCode = 404 =>
                 /\ a.code = 404
                 /\ a.error = IF variant = "direct" THEN <<"Deployment not found">>
                               ELSE <<"Job not found">>
            /\ e.statusCode # 404 => a.code = 500 /\ a.error = e.message
            /\ a.status = "" /\ a.phase = "" /\ a.job_id = Undefined
            /\ qpc'[q] = "done"
            /\ store' = store]_vars

\* One query was answered 404 and another 500 with the message of a
\* transport failure.
C16_Witness ==
  \E q1, q2 \in Queries :
    /\ qpc[q1] = "done" /\ qResp[q1].code = 404
    /\ qResp[q1].error = StatusNotFoundMessage(variant)
    /\ qpc[q2] = "done" /\ qResp[q2].code = 500
    /\ qResp[q2].error = NetworkError.message

(***************************************************************************)
(* The failure event of a deploy.                                          *)
(***************************************************************************)
\* C17: in the step in which a deploy request that has a job id fails, every
\* connection that is open and subscribed to that job id is sent one more
\* event, the failure event of the request.
C17_FailureReachesJobSubscribers ==
  [][\A r \in Reqs :
       pc[r] = "await" /\ pc'[r] = "done" /\ resp'[r].code = 500 =>
         \A c \in Conns :
           readyState[c] = "OPEN" /\ jobId[r] \in subscribedJobs[c] =>
             /\ Len(received'[c]) = Len(received[c]) + 1
             /\ received'[c][Len(received'[c])].level = "error"]_vars

(***************************************************************************)
(* The outcome of two concurrent deploys of one app (server.js).           *)
(***************************************************************************)
\* r1 and r2 ran concurrently: neither had been answered when the other
\* arrived.
Concurrent(r1, r2) ==
  /\ r1 # r2
  /\ pc[r1] # "idle" /\ pc[r2] # "idle"
  /\ r1 \notin doneAtStart[r2] /\ r2 \notin doneAtStart[r1]

\* C18: once two concurrent requests for one app name that differ in port
\* and domain have both been answered 200, the Deployment, Service and
\* Ingress in the store are those of one of the two requests: the Service's
\* target port is the Deployment's container port and the Ingress host is
\* the domain of the request whose Deployment is in the store.
C18_OneRequestWins ==
  \A r1, r2 \in Reqs :
    /\ variant = "direct"
    /\ Concurrent(r1, r2)
    /\ pc[r1] = "done" /\ resp[r1].code = 200
    /\ pc[r2] = "done" /\ resp[r2].code = 200
    /\ args[r1].app_name = args[r2].app_name
    /\ args[r1].port # args[r2].port /\ args[r1].domain # args[r2].domain
    => LET dKey == KeyOf(r1, "Deployment")
           sKey == KeyOf(r1, "Service")
           iKey == KeyOf(r1, "Ingress")
       IN /\ {dKey, sKey, iKey} \subseteq DOMAIN store
          /\ store[sKey].spec.targetPort = store[dKey].spec.containerPort
          /\ \E r \in {r1, r2} :
               /\ store[dKey].spec = DeploymentDoc(variant, args[r])
               /\ store[iKey].spec.host = args[r].domain

(***************************************************************************)
(* Uniqueness of job ids.                                                  *)
(***************************************************************************)
\* The build variant's creation of r's Job met a Job of the same name.
JobNameTaken(r) ==
  /\ calls[r] # <<>>
  /\ calls[r][1].kind = "Job"
  /\ calls[r][1].error = AlreadyExistsError

\* C19: any two distinct accepted deploy requests have different job ids,
\* whatever their app names and the clock values at which they were received,
\* and in the build variant no creation of a Job fails because the name is
\* taken by the Job of another request.
C19_JobIdsUnique ==
  /\ \A r1, r2 \in Reqs :
       r1 # r2 /\ jobId[r1] # Undefined /\ jobId[r2] # Undefined =>
         jobId[r1] # jobId[r2]
  /\ \A r \in Reqs : ~JobNameTaken(r)

(***************************************************************************)
(* The logs of a deployed app (server.js).                                 *)
(***************************************************************************)
\* The Deployment of the request answered with job id jid has a running pod.
AppPodRunning(jid) ==
  \E r \in Reqs :
    /\ resp[r].code = 200 /\ resp[r].job_id = jid
    /\ KeyOf(r, "Deployment") \in DOMAIN store
    /\ \E p \in PodsOf(KeyOf(r, "Deployment")) : p.running

\* C20: in server.js, when the list of a log query for a job id that POST
\* /deploy answered returns while the deployed app's pod is running, the
\* query is not answered 404: it goes on to open the log of a pod.
C20_LogsOfDeployedApp ==
  [][\A q \in Queries :
       /\ variant = "direct"
       /\ logs[q].pc = "list" /\ logs'[q].pc # "list"
       /\ AppPodRunning(logs[q].jobId)
       => logs'[q].code # 404 /\ (logs'[q].pc = "open" \/ logs'[q].code = 500)]_vars

====
